---- MODULE Spec2Model ----
(***************************************************************************)
(* A model of the helper code of the tutorial notebooks: the mass-action   *)
(* generator mk_exprs_symbs, the ODEsys wrapper, the forward Euler stepper *)
(* euler_fw, the hand-written right-hand sides and list_to_frac.           *)
(*                                                                         *)
(* Symbolic expressions are modelled as sums of monomials and are compared *)
(* by value: a SymPy expression is a sequence of terms                     *)
(*     [c |-> integer factor, k |-> rate-constant symbol, e |-> powers]    *)
(* and Eval gives its value under an assignment of integers to symbols.    *)
(* Floating point numbers are modelled by integers (no rounding).          *)
(* A Python dict is the sequence of its (key, value) items in insertion    *)
(* order, a Python tuple or list is a sequence.                            *)
(***************************************************************************)
EXTENDS Integers, Sequences, FiniteSets, TLC

VARIABLES
    pc,         \* position of the notebook session
    reactions,  \* the serialized reactions handed to mk_exprs_symbs / mk_rsys
    names,      \* the species names handed to mk_exprs_symbs / mk_rsys
    params,     \* the params handed to ODEsys / mk_rsys
    f,          \* first component returned by mk_exprs_symbs
    symbs,      \* second component returned by mk_exprs_symbs
    odesys,     \* the ODEsys instance (its attributes), once constructed
    call,       \* the last call of f_eval / j_eval / integrate_odeint: its arguments
    ret,        \* what that call returned
    solver,     \* the calls received by the external solver odeint
    rhsFn,      \* the callback handed to euler_fw (or applied directly)
    y0,         \* initial state handed to euler_fw (state handed to the callback)
    tout,       \* output times handed to euler_fw (time handed to the callback)
    args,       \* the params tuple handed to euler_fw (or to the callback)
    yout,       \* what euler_fw (or the callback) returned
    rhsLog,     \* the calls euler_fw made of its callback, in order
    a,          \* the values given to the symbols a0..a4
    frac        \* the value of list_to_frac(continued_frac()) under a

vars == << pc, reactions, names, params, f, symbs, odesys, call, ret, solver,
           rhsFn, y0, tout, args, yout, rhsLog, a, frac >>

chemVars  == << reactions, names, params, f, symbs, odesys, call, ret, solver >>
eulerVars == << rhsFn, y0, tout, args, yout, rhsLog >>
fracVars  == << a, frac >>

(***************************************************************************)
(* Bounds of the model.                                                    *)
(***************************************************************************)
MaxRxns == 2      \* longest reaction list drawn from ReactionPool
MaxConc == 2      \* largest concentration tried
MaxRate == 2      \* largest rate constant tried

(***************************************************************************)
(* Generic helpers.                                                        *)
(***************************************************************************)
RECURSIVE Pow(_, _)
Pow(b, n) == IF n = 0 THEN 1 ELSE b * Pow(b, n - 1)

Range(s) == { s[i] : i \in DOMAIN s }

SeqsUpTo(S, n) == UNION { [1..m -> S] : m \in 0..n }

\* dict helpers: a dict is a sequence of <<key, value>> items
Keys(d) == { d[i][1] : i \in DOMAIN d }
Get(d, key) == LET i == CHOOSE i \in DOMAIN d : d[i][1] = key IN d[i][2]

(***************************************************************************)
(* The serialized reaction systems of the notebooks.                       *)
(***************************************************************************)
\* Robertson's system: (rate_const, coeff_powers, net_effect) triples
Robertson ==
    << << "k1", << <<"A", 1>> >>,             << <<"B", 1>>, <<"A", -1>> >> >>,
       << "k2", << <<"B", 1>>, <<"C", 1>> >>, << <<"A", 1>>, <<"B", -1>> >> >>,
       << "k3", << <<"B", 2>> >>,             << <<"B", -1>>, <<"C", 1>> >> >> >>

RobertsonNames == << "A", "B", "C" >>
RobertsonParams == << "k1", "k2", "k3" >>

\* 2 NO + Br2 <-> 2 NOBr as two uni-directional reactions (matrices S and R)
Nitrosyl ==
    << << "kf", << <<"NO", 2>>, <<"Br2", 1>> >>,
               << <<"NO", -2>>, <<"Br2", -1>>, <<"NOBr", 2>> >> >>,
       << "kb", << <<"NOBr", 2>> >>,
               << <<"NO", 2>>, <<"Br2", 1>>, <<"NOBr", -2>> >> >> >>

NitrosylNames == << "NO", "Br2", "NOBr" >>
NitrosylParams == << "kf", "kb" >>

(***************************************************************************)
(* SymPy expressions by value.                                             *)
(***************************************************************************)
RECURSIVE PowProd(_, _, _)
\* the value of prod(c**p for (c, p) in items[i:]) under env
PowProd(items, i, env) ==
    IF i > Len(items) THEN 1
    ELSE Pow(env[items[i][1]], items[i][2]) * PowProd(items, i + 1, env)

EvalTerm(t, env) == t.c * env[t.k] * PowProd(t.e, 1, env)

RECURSIVE EvalFrom(_, _, _)
EvalFrom(expr, i, env) ==
    IF i > Len(expr) THEN 0
    ELSE EvalTerm(expr[i], env) + EvalFrom(expr, i + 1, env)

\* the value of an expression (a sum of terms) under env
Eval(expr, env) == EvalFrom(expr, 1, env)

(***************************************************************************)
(* chem.py: prod and mk_exprs_symbs.                                       *)
(***************************************************************************)
KeyError == [err |-> TRUE, f |-> << >>, symbs |-> << >>]

\* r = sym.S(coeff)*prod([c_dict[rk]**p for rk, p in r_stoich.items()]);
\* prod of an empty list is 1
RateTermNoPow(coeff, r_stoich) ==     \* variant: every power taken as 1
    [c |-> 1, k |-> coeff, e |-> [i \in DOMAIN r_stoich |-> <<r_stoich[i][1], 1>>]]

RateTerm(coeff, r_stoich) == [c |-> 1, k |-> coeff, e |-> r_stoich]

\* nm*r
ScaleUnit(nm, r) == r     \* variant: the net coefficient dropped

Scale(nm, r) == [r EXCEPT !.c = nm * r.c]

RECURSIVE AddNet(_, _, _, _)
\* for nk, nm in net_stoich.items(): f[nk] += nm*r     (items i.. of the dict)
AddNet(fd, net_stoich, r, i) ==
    IF fd.err \/ i > Len(net_stoich) THEN fd
    ELSE LET nk == net_stoich[i][1]
             nm == net_stoich[i][2]
         IN  IF nk \notin DOMAIN fd.f THEN KeyError
             ELSE AddNet([fd EXCEPT !.f[nk] = Append(@, Scale(nm, r))],
                         net_stoich, r, i + 1)

RECURSIVE RxnLoop(_, _, _, _)
\* for coeff, r_stoich, net_stoich in rxns: ...        (reactions i.. of rxns)
RxnLoop(fd, rxns, nameList, i) ==
    IF fd.err \/ i > Len(rxns) THEN fd
    ELSE LET coeff == rxns[i][1]
             r_stoich == rxns[i][2]
             net_stoich == rxns[i][3]
         IN  IF ~(Keys(r_stoich) \subseteq Range(nameList)) THEN KeyError  \* c_dict[rk]
             ELSE RxnLoop(AddNet(fd, net_stoich, RateTerm(coeff, r_stoich), 1),
                          rxns, nameList, i + 1)

\* mk_exprs_symbs(rxns, names): ([f[n] for n in names], concs), or KeyError
mk_exprs_symbs(rxns, nameList) ==
    LET f0 == [err |-> FALSE, f |-> [n \in Range(nameList) |-> << >>], symbs |-> << >>]
        fd == RxnLoop(f0, rxns, nameList, 1)
    IN  IF fd.err THEN KeyError
        ELSE [err |-> FALSE,
              f |-> [i \in DOMAIN nameList |-> fd.f[nameList[i]]],
              symbs |-> nameList]

(***************************************************************************)
(* SymPy: differentiation, Matrix.jacobian and lambdify, by value.         *)
(***************************************************************************)
RECURSIVE DropPow(_, _, _)
\* the powers of a monomial after d/ds: the power of s lowered by one (a factor
\* whose power becomes 0 disappears)
DropPow(items, s, i) ==
    IF i > Len(items) THEN << >>
    ELSE LET rest == DropPow(items, s, i + 1)
         IN  IF items[i][1] # s THEN << items[i] >> \o rest
             ELSE IF items[i][2] = 1 THEN rest
             ELSE << <<s, items[i][2] - 1>> >> \o rest

\* d/ds of one term, as a sum of zero or one terms; the rate constant is a constant
DiffTermNoFactor(t, s) ==     \* variant: the power not brought down as a factor
    IF s \in Keys(t.e) /\ Get(t.e, s) # 0
    THEN << [c |-> t.c, k |-> t.k, e |-> DropPow(t.e, s, 1)] >>
    ELSE << >>

DiffTerm(t, s) ==
    IF s \in Keys(t.e) /\ Get(t.e, s) # 0
    THEN << [c |-> t.c * Get(t.e, s), k |-> t.k, e |-> DropPow(t.e, s, 1)] >>
    ELSE << >>

RECURSIVE DiffFrom(_, _, _)
DiffFrom(expr, s, i) ==
    IF i > Len(expr) THEN << >>
    ELSE DiffTerm(expr[i], s) \o DiffFrom(expr, s, i + 1)

\* sym.diff(expr, s)
Diff(expr, s) == DiffFrom(expr, s, 1)

\* sym.Matrix(n, 1, fs).jacobian(ys): row i holds the derivatives of fs[i]
Jacobian(fs, ys) ==
    [i \in DOMAIN fs |-> [k \in DOMAIN ys |-> Diff(fs[i], ys[k])]]

\* the symbols an expression mentions
TermSymbols(t) == {t.k} \cup Keys(t.e)
ExprSymbols(expr) == UNION { TermSymbols(expr[i]) : i \in DOMAIN expr }

\* sym.lambdify(arglist, body): a function of len(arglist) positional arguments
Lambdify(arglist, body) == [arglist |-> arglist, body |-> body]

\* the binding of a call: the i-th value to the i-th symbol of the argument list
BindShifted(arglist, values) ==     \* variant: every value bound one symbol early
    [s \in Range(arglist) |->
        values[((CHOOSE i \in DOMAIN arglist : arglist[i] = s) % Len(values)) + 1]]

Bind(arglist, values) ==
    [s \in Range(arglist) |-> values[CHOOSE i \in DOMAIN arglist : arglist[i] = s]]

TypeError == [err |-> "TypeError", val |-> << >>]
NameError == [err |-> "NameError", val |-> << >>]
Returned(v) == [err |-> "", val |-> v]

\* lam(*values) for a lambdified tuple of expressions
ApplyVector(lam, values) ==
    IF Len(values) # Len(lam.arglist) THEN TypeError
    ELSE IF \E i \in DOMAIN lam.body :
                ~(ExprSymbols(lam.body[i]) \subseteq Range(lam.arglist))
    THEN NameError
    ELSE Returned([i \in DOMAIN lam.body |->
                      Eval(lam.body[i], Bind(lam.arglist, values))])

\* lam(*values) for a lambdified matrix of expressions
ApplyMatrix(lam, values) ==
    IF Len(values) # Len(lam.arglist) THEN TypeError
    ELSE IF \E i \in DOMAIN lam.body : \E k \in DOMAIN lam.body[i] :
                ~(ExprSymbols(lam.body[i][k]) \subseteq Range(lam.arglist))
    THEN NameError
    ELSE Returned([i \in DOMAIN lam.body |-> [k \in DOMAIN lam.body[i] |->
                      Eval(lam.body[i][k], Bind(lam.arglist, values))]])

(***************************************************************************)
(* odesys.py: class ODEsys.                                                *)
(***************************************************************************)
NoODEsys == [made |-> FALSE]

\* ODEsys.__init__ after its assertion, with setup()
ODEsysAttrs(fs, ys, ps) ==
    LET j == Jacobian(fs, ys)
    IN  [made |-> TRUE, f |-> fs, y |-> ys, p |-> ps, j |-> j,
         lambdified_f |-> Lambdify(ys \o ps, fs),
         lambdified_j |-> Lambdify(ys \o ps, j)]

\* ODEsys(fs, ys, params=ps): the assertion comes first; self is the instance
\* as far as __init__ got, err the exception raised ("" for none)
ODEsysInitLateAssert(fs, ys, ps) ==     \* variant: f and y stored, then the assertion
    IF Len(fs) = Len(ys)
    THEN [err |-> "", self |-> ODEsysAttrs(fs, ys, ps)]
    ELSE [err |-> "AssertionError", self |-> [made |-> FALSE, f |-> fs, y |-> ys]]

ODEsysInit(fs, ys, ps) ==
    IF Len(fs) = Len(ys)                            \* assert len(f) == len(y)
    THEN [err |-> "", self |-> ODEsysAttrs(fs, ys, ps)]
    ELSE [err |-> "AssertionError", self |-> NoODEsys]

\* ODEsys.ny
ny(self) == Len(self.y)

\* sym.S(p) for a parameter given by name: the symbol of that name. A symbol is
\* its name here, as lambdify takes either for an argument
Sympify(p) == p

\* mk_rsys(ODEsys, rxns, names, params): the result of the constructor, or the
\* KeyError of mk_exprs_symbs
mk_rsysNoParams(rxns, nameList, ps) ==     \* variant: params not handed on
    LET r == mk_exprs_symbs(rxns, nameList)
    IN  IF r.err THEN [err |-> "KeyError", self |-> NoODEsys]
        ELSE ODEsysInit(r.f, r.symbs, << >>)

mk_rsys(rxns, nameList, ps) ==
    LET r == mk_exprs_symbs(rxns, nameList)
    IN  IF r.err THEN [err |-> "KeyError", self |-> NoODEsys]
        ELSE ODEsysInit(r.f, r.symbs, [k \in DOMAIN ps |-> Sympify(ps[k])])

\* ODEsys.f_eval(y, t, *params)
f_eval(self, y, t, ps) == ApplyVector(self.lambdified_f, y \o ps)

\* ODEsys.j_eval(y, t, *params)
j_eval(self, y, t, ps) == ApplyMatrix(self.lambdified_j, y \o ps)

\* keywords odeint accepts besides the ones integrate_odeint passes itself
\* (args, full_output, Dfun, rtol, atol) and its positional func, y0 and t
OtherOdeintKeywords == { "mxstep", "hmax", "tfirst" }

DefaultTol == "1e-8"

RECURSIVE Without(_, _, _)
\* the items of dict d (from item i on) whose key is not in ks
Without(d, ks, i) ==
    IF i > Len(d) THEN << >>
    ELSE (IF d[i][1] \in ks THEN << >> ELSE << d[i] >>) \o Without(d, ks, i + 1)

\* the call integrate_odeint(tout, y0, params, **kw) makes of the solver: the
\* keywords rtol and atol of kw bind to integrate_odeint's own parameters, the
\* others are kwargs. A repeated or unknown keyword is a TypeError raised by
\* the call itself, before the solver runs.
OdeintCallNoJac(self, toutv, y0v, ps, kw) ==     \* variant: a Dfun of kwargs wins
    LET kwargs == Without(kw, {"rtol", "atol"}, 1)
    IN  IF Keys(kwargs) \subseteq OtherOdeintKeywords \cup {"Dfun"}
        THEN << [func |-> "f_eval", y0 |-> y0v, t |-> toutv, args |-> ps,
                 full_output |-> TRUE,
                 Dfun |-> IF "Dfun" \in Keys(kwargs) THEN Get(kwargs, "Dfun") ELSE "j_eval",
                 rtol |-> IF "rtol" \in Keys(kw) THEN Get(kw, "rtol") ELSE DefaultTol,
                 atol |-> IF "atol" \in Keys(kw) THEN Get(kw, "atol") ELSE DefaultTol,
                 kwargs |-> Without(kwargs, {"Dfun"}, 1)] >>
        ELSE << >>

OdeintCall(self, toutv, y0v, ps, kw) ==
    LET kwargs == Without(kw, {"rtol", "atol"}, 1)
    IN  IF Keys(kwargs) \subseteq OtherOdeintKeywords
        THEN << [func |-> "f_eval", y0 |-> y0v, t |-> toutv, args |-> ps,
                 full_output |-> TRUE, Dfun |-> "j_eval",
                 rtol |-> IF "rtol" \in Keys(kw) THEN Get(kw, "rtol") ELSE DefaultTol,
                 atol |-> IF "atol" \in Keys(kw) THEN Get(kw, "atol") ELSE DefaultTol,
                 kwargs |-> kwargs] >>
        ELSE << >>

\* what integrate_odeint returns, given what odeint returned
OdeintReturn(res) == Returned(res)

(***************************************************************************)
(* The hand-written right-hand sides of the notebooks. A state vector      *)
(* y[0], y[1], ... of the code is the sequence y[1], y[2], ... here.       *)
(***************************************************************************)
\* rhs(y, t, decay_constant) of the model problem
rhs_decay(y, t, decay_constant) == [i \in DOMAIN y |-> -decay_constant * y[i]]

\* vdp(y, t, mu)
vdpDampingAtT(y, t, mu) ==     \* variant: the damping term scaled by t
    << y[2], mu * (1 - Pow(y[1], 2)) * y[2] * t - y[1] >>

vdp(y, t, mu) == << y[2], mu * (1 - Pow(y[1], 2)) * y[2] - y[1] >>

\* rhs(y, t, kf, kb) of the nitrosyl bromide example
rhsSignSlip(y, t, kf, kb) ==     \* variant: the sign of the Br2 component flipped
    LET rf == kf * Pow(y[1], 2) * y[2]
        rb == kb * Pow(y[3], 2)
    IN  << 2 * (rb - rf), rf - rb, 2 * (rf - rb) >>

rhsTimeScaled(y, t, kf, kb) ==     \* variant: the NO component scaled by t
    LET rf == kf * Pow(y[1], 2) * y[2]
        rb == kb * Pow(y[3], 2)
    IN  << 2 * (rb - rf) * t, rb - rf, 2 * (rf - rb) >>

rhs(y, t, kf, kb) ==
    LET rf == kf * Pow(y[1], 2) * y[2]
        rb == kb * Pow(y[3], 2)
    IN  << 2 * (rb - rf), rb - rf, 2 * (rf - rb) >>

(***************************************************************************)
(* euler_fw. A callback is named by rhsFn; params is unpacked into its     *)
(* trailing arguments.                                                     *)
(***************************************************************************)
Callbacks == { "rhs_decay", "vdp", "rhs" }

\* rhs(y, t, *params) for the callback named fn
CallRhs(fn, y, t, ps) ==
    CASE fn = "rhs_decay" -> rhs_decay(y, t, ps[1])
      [] fn = "vdp"       -> vdp(y, t, ps[1])
      [] fn = "rhs"       -> rhs(y, t, ps[1], ps[2])

\* the time handed to rhs in the iteration that computes yout[i]: the loop
\* variable t of "for i, t in enumerate(tout[1:], 1)", which is tout[i]
\* (the sequence index i + 1 here)
RhsTime(toutv, i) == toutv[i + 1]

\* h = t - t_old
StepSize(t, t_old) == t - t_old

\* t_old = t at the end of an iteration
TOldKept(t_old, t) == t_old     \* variant: t_old never updated

TOldAfter(t_old, t) == t

\* yout[i-1] + dydt*h
Advance(y, dydt, h) == [c \in DOMAIN y |-> y[c] + dydt[c] * h]

RECURSIVE EulerLoop(_, _, _, _, _, _, _)
\* iterations i.. of the loop, given the rows yout[0..i-1] (rows), t_old and the
\* calls of rhs made so far (log)
EulerLoop(fn, toutv, ps, rows, log, t_old, i) ==
    IF i > Len(toutv) - 1 THEN [yout |-> rows, log |-> log]
    ELSE LET t == RhsTime(toutv, i)
             dydt == CallRhs(fn, rows[i], t, ps)
             h == StepSize(toutv[i + 1], t_old)
         IN  EulerLoop(fn, toutv, ps,
                       Append(rows, Advance(rows[i], dydt, h)),
                       Append(log, [y |-> rows[i], t |-> t, ret |-> dydt]),
                       TOldAfter(t_old, toutv[i + 1]),
                       i + 1)

\* euler_fw(rhs, y0, tout, params) for a non-empty tout: yout and the calls of rhs
euler_fw(fn, y0v, toutv, ps) ==
    EulerLoop(fn, toutv, ps, << y0v >>, << >>, toutv[1], 1)

(***************************************************************************)
(* Continued fractions: list_to_frac and continued_frac. The expression    *)
(* list_to_frac builds is followed by value, as a rational num/den, under  *)
(* an assignment of integers to the symbols a0..a4.                        *)
(***************************************************************************)
FracSymbols == { "a0", "a1", "a2", "a3", "a4" }

\* the list continued_frac() returns
continued_fracInOrder == << "a0", "a1", "a2", "a3", "a4" >>     \* variant: the symbols in order

continued_frac == << "a3", "a4", "a0", "a2", "a1" >>

\* expr += i, for a rational expr and an integer i
RatAdd(q, i) == [q EXCEPT !.num = q.num + i * q.den]

\* expr = 1/expr; 1/0 has no finite value (SymPy's zoo), which ok = FALSE records
RatInv(q) ==
    IF q.num = 0 THEN [q EXCEPT !.ok = FALSE]
    ELSE [q EXCEPT !.num = q.den, !.den = q.num]

RECURSIVE FracLoop(_, _, _, _)
\* for i in reversed(l[1:]): expr += i; expr = 1/expr    (from l[j] downwards)
FracLoop(l, env, expr, j) ==
    IF j < 2 \/ ~expr.ok THEN expr
    ELSE FracLoop(l, env, RatInv(RatAdd(expr, env[l[j]])), j - 1)

\* list_to_frac(l), by value under env
list_to_frac(l, env) ==
    LET expr == FracLoop(l, env, [ok |-> TRUE, num |-> 0, den |-> 1], Len(l))
    IN  IF expr.ok THEN RatAdd(expr, env[l[1]]) ELSE expr

(***************************************************************************)
(* The inputs of the chemistry notebooks.                                  *)
(***************************************************************************)
\* reactions to build lists from: Robertson's, nitrosyl bromide's, a source
\* term with no reactant and a reaction with no net effect
ReactionPool ==
    Range(Robertson) \cup Range(Nitrosyl) \cup
    { << "k1", << >>, << <<"A", 1>>, <<"C", 2>> >> >>,
      << "k2", << <<"A", 2>>, <<"B", 1>> >>, << >> >> }

ReactionLists == SeqsUpTo(ReactionPool, MaxRxns) \cup { Robertson, Nitrosyl }

NameLists == { RobertsonNames, NitrosylNames, << "C", "A", "B" >> }

ParamLists == { RobertsonParams, NitrosylParams }

Conc == { 0, 1, MaxConc }
Rates == { 1, MaxRate }

\* the rate-constant symbols of a reaction list
RateSymbols(rxns) == { rxns[i][1] : i \in DOMAIN rxns }

\* every assignment of concentrations to the species and rates to the constants
Envs(species, consts) ==
    { [s \in species \cup consts |-> IF s \in species THEN cs[s] ELSE ks[s]] :
        cs \in [species -> Conc], ks \in [consts -> Rates] }

NoCall == [fn |-> "none", y |-> << >>, t |-> 0, params |-> << >>, kw |-> << >>]

IdleChem ==
    /\ reactions = << >> /\ names = << >> /\ params = << >>
    /\ f = << >> /\ symbs = << >> /\ odesys = NoODEsys
    /\ call = NoCall /\ ret = Returned(<< >>) /\ solver = << >>

IdleEuler ==
    /\ rhsFn = "none" /\ y0 = << >> /\ tout = << >> /\ args = << >>
    /\ yout = << >> /\ rhsLog = << >>

IdleFrac == a = << >> /\ frac = << >>

(***************************************************************************)
(* The chemistry session: mk_exprs_symbs, then ODEsys(f, symbs, params),   *)
(* then calls of the instance's methods.                                   *)
(***************************************************************************)
ChemStart ==
    /\ pc = "start"
    /\ f = << >> /\ symbs = << >> /\ odesys = NoODEsys
    /\ call = NoCall /\ ret = Returned(<< >>) /\ solver = << >>
    /\ IdleEuler /\ IdleFrac

\* any reaction list over the pool, with any of the name and parameter lists
InitChem ==
    /\ reactions \in ReactionLists
    /\ names \in NameLists
    /\ params \in ParamLists
    /\ ChemStart

\* f, symbs = mk_exprs_symbs(reactions, names)
MkExprsSymbs ==
    /\ pc = "start"
    /\ LET r == mk_exprs_symbs(reactions, names)
       IN  IF r.err
           THEN pc' = "KeyError" /\ UNCHANGED << f, symbs >>
           ELSE pc' = "exprs" /\ f' = r.f /\ symbs' = r.symbs
    /\ UNCHANGED << reactions, names, params, odesys, call, ret, solver >>
    /\ UNCHANGED << eulerVars, fracVars >>

\* odesys = ODEsys(f, symbs, params=params)
ODEsysNew ==
    /\ pc = "exprs"
    /\ LET r == ODEsysInit(f, symbs, params)
       IN  /\ pc' = IF r.err = "" THEN "odesys" ELSE r.err
           /\ odesys' = r.self
    /\ UNCHANGED << reactions, names, params, f, symbs, call, ret, solver >>
    /\ UNCHANGED << eulerVars, fracVars >>

NextChem == MkExprsSymbs \/ ODEsysNew

SpecChem == InitChem /\ [][NextChem]_vars
(***************************************************************************)
(* The ODEsys session: a system of the notebooks is built and its methods  *)
(* f_eval, j_eval and integrate_odeint are called. No method changes the   *)
(* instance, so the session is followed up to its first method call.       *)
(***************************************************************************)
MaxTime == 1      \* largest time handed to a callback

Times == 0..MaxTime

\* (reactions, names, params) of the systems built: each notebook system with its
\* parameters in two orders, and Robertson's with a parameter left out
ODESystems ==
    { << Robertson, RobertsonNames, RobertsonParams >>,
      << Robertson, RobertsonNames, << "k3", "k1", "k2" >> >>,
      << Robertson, << "B", "C", "A" >>, << "k1", "k2" >> >>,
      << Nitrosyl, NitrosylNames, NitrosylParams >>,
      << Nitrosyl, << "NOBr", "NO", "Br2" >>, << "kb", "kf" >> >> }

InitODEsys ==
    /\ \E sys \in ODESystems :
          reactions = sys[1] /\ names = sys[2] /\ params = sys[3]
    /\ ChemStart

\* the parameter tuples a caller passes: one value per parameter, one too few,
\* or none (the default params=())
ParamValues(self) ==
    UNION { [1..m -> Rates] : m \in { 0, Len(self.p) - 1, Len(self.p) } }

\* the keyword arguments a caller of integrate_odeint passes
KeywordChoices ==
    { << >>,
      << <<"atol", "1e-9">>, <<"rtol", "1e-9">> >>,
      << <<"rtol", "1e-6">> >>,
      << <<"mxstep", "5000">> >>,
      << <<"atol", "1e-9">>, <<"hmax", "1">> >>,
      << <<"Dfun", "user_jac">> >>,
      << <<"rtol", "1e-6">>, <<"full_output", "False">> >>,
      << <<"args", "user_args">> >>,
      << <<"y0", "user_y0">> >>,
      << <<"colour", "red">> >> }

\* what the external solver hands back: a (yout, info) pair
SolverResults == { << "yout_1", "info_1" >>, << "yout_2", "info_2" >> }

\* odesys.f_eval(y, t, *ps)
FEval ==
    /\ pc = "odesys"
    /\ \E y \in [1..ny(odesys) -> Conc], t \in Times, ps \in ParamValues(odesys) :
          /\ call' = [fn |-> "f_eval", y |-> y, t |-> t, params |-> ps, kw |-> << >>]
          /\ ret' = f_eval(odesys, y, t, ps)
    /\ solver' = << >>
    /\ pc' = "called"
    /\ UNCHANGED << reactions, names, params, f, symbs, odesys >>
    /\ UNCHANGED << eulerVars, fracVars >>

\* odesys.j_eval(y, t, *ps)
JEval ==
    /\ pc = "odesys"
    /\ \E y \in [1..ny(odesys) -> Conc], t \in Times, ps \in ParamValues(odesys) :
          /\ call' = [fn |-> "j_eval", y |-> y, t |-> t, params |-> ps, kw |-> << >>]
          /\ ret' = j_eval(odesys, y, t, ps)
    /\ solver' = << >>
    /\ pc' = "called"
    /\ UNCHANGED << reactions, names, params, f, symbs, odesys >>
    /\ UNCHANGED << eulerVars, fracVars >>

\* odesys.integrate_odeint(tout, y0, ps, **kw). The solver is external: it
\* evaluates its callback at (y0, tout[0]) first, an exception of the callback
\* propagates, and otherwise it hands back some (yout, info) pair. solver
\* holds the calls the solver received from this call of integrate_odeint.
IntegrateOdeint ==
    /\ pc = "odesys"
    /\ \E y \in [1..ny(odesys) -> {0, 1}], ps \in ParamValues(odesys),
          tv \in { << 0, 1 >>, << 0, 1, MaxTime + 2 >> },
          kw \in KeywordChoices, res \in SolverResults :
          LET calls == OdeintCall(odesys, tv, y, ps, kw)
              first == f_eval(odesys, y, tv[1], ps)
          IN  /\ call' = [fn |-> "integrate_odeint", y |-> y, t |-> tv,
                          params |-> ps, kw |-> kw]
              /\ ret' = IF calls = << >> THEN TypeError
                        ELSE IF first.err # "" THEN first
                        ELSE OdeintReturn(res)
              /\ solver' = [i \in DOMAIN calls |->
                              [call |-> calls[i],
                               result |-> IF first.err # "" THEN << first.err >> ELSE res]]
    /\ pc' = "called"
    /\ UNCHANGED << reactions, names, params, f, symbs, odesys >>
    /\ UNCHANGED << eulerVars, fracVars >>

NextODEsys == MkExprsSymbs \/ ODEsysNew \/ FEval \/ JEval \/ IntegrateOdeint

SpecODEsys == InitODEsys /\ [][NextODEsys]_vars

(***************************************************************************)
(* Construction of an ODEsys: by mk_rsys from the serialized data, or by   *)
(* the constructor itself from any leading part of f and of symbs.         *)
(***************************************************************************)
\* the leading parts of a sequence
Prefixes(s) == { SubSeq(s, 1, m) : m \in 0..Len(s) }

\* ODEsys(fs, ys, params=params) for leading parts fs of f and ys of symbs
ODEsysCall ==
    /\ pc = "exprs"
    /\ \E fs \in Prefixes(f), ys \in Prefixes(symbs) :
          LET r == ODEsysInit(fs, ys, params)
          IN  /\ call' = [fn |-> "ODEsys", f |-> fs, y |-> ys, t |-> 0,
                          params |-> params, kw |-> << >>]
              /\ pc' = IF r.err = "" THEN "odesys" ELSE r.err
              /\ odesys' = r.self
    /\ UNCHANGED << reactions, names, params, f, symbs, ret, solver >>
    /\ UNCHANGED << eulerVars, fracVars >>

\* mk_rsys(ODEsys, reactions, names, params); f and symbs of the notebook are
\* not assigned
MkRsys ==
    /\ pc = "start"
    /\ LET r == mk_rsys(reactions, names, params)
       IN  /\ pc' = IF r.err = "" THEN "odesys" ELSE r.err
           /\ odesys' = r.self
    /\ call' = [fn |-> "mk_rsys", y |-> << >>, t |-> 0, params |-> params, kw |-> << >>]
    /\ UNCHANGED << reactions, names, params, f, symbs, ret, solver >>
    /\ UNCHANGED << eulerVars, fracVars >>

NextConstruct == MkExprsSymbs \/ ODEsysCall \/ MkRsys

SpecConstruct == InitChem /\ [][NextConstruct]_vars

(***************************************************************************)
(* The inputs of the callbacks and of euler_fw.                            *)
(***************************************************************************)
MaxPoints == 3      \* most output times handed to euler_fw
MaxStepTime == 2    \* largest output time

\* the state vectors and parameter tuples of each callback
StatesOf(fn) ==
    CASE fn = "rhs_decay" -> [1..1 -> -1..MaxConc]
      [] fn = "vdp"       -> [1..2 -> -1..1]
      [] fn = "rhs"       -> [1..3 -> Conc]

ParamsOf(fn) ==
    CASE fn = "rhs_decay" -> [1..1 -> Rates]
      [] fn = "vdp"       -> [1..1 -> Rates]
      [] fn = "rhs"       -> [1..2 -> Rates]

\* the callbacks the notebook hands to euler_fw
EulerCallbacks == { "rhs_decay", "vdp" }

\* the state vectors a callback is applied to directly: for vdp wide enough
\* for 1 - y0**2 to take a value other than 0 and 1
AppliedStatesOf(fn) ==
    IF fn = "vdp" THEN [1..2 -> -MaxConc..MaxConc] ELSE StatesOf(fn)

CallbackStart(fns, states) ==
    /\ pc = "start"
    /\ rhsFn \in fns
    /\ y0 \in states[rhsFn]
    /\ args \in ParamsOf(rhsFn)
    /\ yout = << >> /\ rhsLog = << >>
    /\ IdleChem /\ IdleFrac

\* any output times, uniform or not, increasing or not; possibly none
InitEuler ==
    /\ tout \in SeqsUpTo(0..MaxStepTime, MaxPoints)
    /\ CallbackStart(EulerCallbacks, [fn \in EulerCallbacks |-> StatesOf(fn)])

\* yout = euler_fw(rhsFn, y0, tout, args)
EulerFw ==
    /\ pc = "start"
    /\ IF tout = << >>
       THEN pc' = "IndexError" /\ UNCHANGED << yout, rhsLog >>    \* yout[0] = y0
       ELSE LET r == euler_fw(rhsFn, y0, tout, args)
            IN  pc' = "euler_done" /\ yout' = r.yout /\ rhsLog' = r.log
    /\ UNCHANGED << rhsFn, y0, tout, args >>
    /\ UNCHANGED << chemVars, fracVars >>

NextEuler == EulerFw

SpecEuler == InitEuler /\ [][NextEuler]_vars

\* one call of a callback at the time tout[0]
InitRhs ==
    /\ tout \in [1..1 -> 0..MaxStepTime]
    /\ CallbackStart(Callbacks, [fn \in Callbacks |-> AppliedStatesOf(fn)])

\* rhsFn(y0, tout[0], *args)
ApplyRhs ==
    /\ pc = "start"
    /\ LET r == CallRhs(rhsFn, y0, tout[1], args)
       IN  /\ yout' = << r >>
           /\ rhsLog' = << [y |-> y0, t |-> tout[1], ret |-> r] >>
    /\ pc' = "applied"
    /\ UNCHANGED << rhsFn, y0, tout, args >>
    /\ UNCHANGED << chemVars, fracVars >>

NextRhs == ApplyRhs

SpecRhs == InitRhs /\ [][NextRhs]_vars

(***************************************************************************)
(* The continued-fraction cell: cancel(list_to_frac(continued_frac())).    *)
(***************************************************************************)
MaxA == 2      \* largest absolute value given to a symbol a0..a4

InitFrac ==
    /\ pc = "start"
    /\ a \in [FracSymbols -> -MaxA..MaxA]
    /\ frac = << >>
    /\ IdleChem /\ IdleEuler

\* list_to_frac(continued_frac()), its symbols having the values a
ListToFrac ==
    /\ pc = "start"
    /\ frac' = list_to_frac(continued_frac, a)
    /\ pc' = "frac_done"
    /\ UNCHANGED a
    /\ UNCHANGED << chemVars, eulerVars >>

NextFrac == ListToFrac

SpecFrac == InitFrac /\ [][NextFrac]_vars

(***************************************************************************)
(* Properties of the mass-action generator and of the Jacobian.            *)
(***************************************************************************)
RECURSIVE ProdOver(_, _, _)
\* product over the species l of S of env[l] ** r_stoich[l]
ProdOver(S, r_stoich, env) ==
    IF S = {} THEN 1
    ELSE LET l == CHOOSE l \in S : TRUE
         IN  Pow(env[l], Get(r_stoich, l)) * ProdOver(S \ {l}, r_stoich, env)

RECURSIVE MassActionSum(_, _, _, _)
\* sum over the reactions j.. of net_stoich[n] * coeff * prod conc[l]**p, a
\* reaction whose net_stoich does not mention n contributing 0
MassActionSum(rxns, n, env, j) ==
    IF j > Len(rxns) THEN 0
    ELSE (IF n \in Keys(rxns[j][3])
          THEN Get(rxns[j][3], n) * env[rxns[j][1]]
                 * ProdOver(Keys(rxns[j][2]), rxns[j][2], env)
          ELSE 0)
         + MassActionSum(rxns, n, env, j + 1)

\* the species a reaction list mentions
Mentioned(rxns) ==
    UNION { Keys(rxns[j][2]) \cup Keys(rxns[j][3]) : j \in DOMAIN rxns }

ExprsReturned == pc \in { "exprs", "odesys" }

ChemEnvs == Envs(Range(names), RateSymbols(reactions))

\* C1: mk_exprs_symbs(rxns, names) returns one expression per entry of names, in
\* the order of names, and under every assignment of concentrations and rate
\* constants the expression for species n has the value of the sum over the
\* reactions of net_stoich[n] * coeff * prod conc[l]**p (0 for a reaction whose
\* net_stoich does not mention n); it returns whenever names holds every species
\* the reactions mention.
C1_MassAction ==
    /\ ExprsReturned =>
          /\ Len(f) = Len(names)
          /\ symbs = names
          /\ \A i \in DOMAIN names : \A env \in ChemEnvs :
                Eval(f[i], env) = MassActionSum(reactions, names[i], env, 1)
    /\ pc = "KeyError" => ~(Mentioned(reactions) \subseteq Range(names))

\* two reactions were summed into one species and another species, in no
\* net_stoich, got the derivative 0
C1_Witness ==
    /\ pc = "exprs"
    /\ \E i \in DOMAIN f : Len(f[i]) = 2
    /\ \E i \in DOMAIN f :
          /\ f[i] = << >>
          /\ \A j \in DOMAIN reactions : names[i] \notin Keys(reactions[j][3])

RobertsonBuilt ==
    ExprsReturned /\ reactions = Robertson /\ names = RobertsonNames

\* C8: for Robertson's system mk_exprs_symbs returns, in the order A, B, C,
\* expressions with the values of -k1*A + k2*B*C, k1*A - k2*B*C - k3*B**2 and
\* k3*B**2; the catalyst C is in the rate of the second reaction, which adds
\* no term to dC/dt.
C8_Robertson ==
    RobertsonBuilt =>
       /\ Len(f) = 3
       /\ \A env \in ChemEnvs :
             /\ Eval(f[1], env) = -env["k1"] * env["A"] + env["k2"] * env["B"] * env["C"]
             /\ Eval(f[2], env) = env["k1"] * env["A"] - env["k2"] * env["B"] * env["C"]
                                     - env["k3"] * Pow(env["B"], 2)
             /\ Eval(f[3], env) = env["k3"] * Pow(env["B"], 2)
       /\ \E i \in DOMAIN f[1] : f[1][i].k = "k2" /\ "C" \in Keys(f[1][i].e)
       /\ \A i \in DOMAIN f[3] : f[3][i].k # "k2"

C8_Witness == RobertsonBuilt /\ pc = "exprs" /\ Len(f[2]) = 3

NitrosylBuilt ==
    ExprsReturned /\ reactions = Nitrosyl /\ names = NitrosylNames

\* C10: the expressions mk_exprs_symbs yields for the two nitrosyl bromide
\* reactions with names [NO, Br2, NOBr] have, for every concentration vector y
\* and every kf, kb, the values of the three components of rhs(y, t, kf, kb).
C10_RhsAgrees ==
    NitrosylBuilt =>
       /\ Len(f) = 3
       /\ \A env \in ChemEnvs : \A t \in { 0, 1 } :
             LET y == << env["NO"], env["Br2"], env["NOBr"] >>
             IN  \A i \in 1..3 : Eval(f[i], env) = rhs(y, t, env["kf"], env["kb"])[i]

C10_Witness == NitrosylBuilt /\ pc = "exprs" /\ \A i \in 1..3 : Len(f[i]) = 2

\* env with the value of symbol s moved by d
Shift(env, s, d) == [env EXCEPT ![s] = @ + d]

RECURSIVE PartialSum(_, _, _, _, _)
\* sum over the reactions j.. of net_stoich[n] * c * e_k * y_k**(e_k-1) *
\* prod_{l # k} y_l**e_l, the partial derivative of the mass-action sum
PartialSum(rxns, n, yk, env, j) ==
    IF j > Len(rxns) THEN 0
    ELSE (IF n \in Keys(rxns[j][3]) /\ yk \in Keys(rxns[j][2])
          THEN Get(rxns[j][3], n) * env[rxns[j][1]]
                 * Get(rxns[j][2], yk) * Pow(env[yk], Get(rxns[j][2], yk) - 1)
                 * ProdOver(Keys(rxns[j][2]) \ {yk}, rxns[j][2], env)
          ELSE 0)
         + PartialSum(rxns, n, yk, env, j + 1)

\* C4: after ODEsys(f, y, params=p) is constructed its attribute j has ny rows
\* and ny columns and entry (i, k) is the partial derivative of f[i] with
\* respect to y[k], the parameters being constants: it has the value of the
\* term-wise derivative c * e_k * y_k**(e_k-1) * prod_{l # k} y_l**e_l, and
\* (f being of degree at most 4 in y[k]) 12 times it is the five-point
\* difference -f(y_k+2) + 8 f(y_k+1) - 8 f(y_k-1) + f(y_k-2) of f[i].
C4_Jacobian ==
    pc = "odesys" =>
       /\ odesys.f = f /\ odesys.y = symbs /\ odesys.p = params
       /\ Len(odesys.j) = ny(odesys)
       /\ \A i \in DOMAIN odesys.j :
             /\ Len(odesys.j[i]) = ny(odesys)
             /\ \A k \in DOMAIN odesys.j[i] : \A env \in ChemEnvs :
                   LET yk == odesys.y[k]
                       fi(d) == Eval(odesys.f[i], Shift(env, yk, d))
                   IN  /\ Eval(odesys.j[i][k], env)
                            = PartialSum(reactions, names[i], yk, env, 1)
                       /\ 12 * Eval(odesys.j[i][k], env)
                            = -fi(2) + 8 * fi(1) - 8 * fi(-1) + fi(-2)

\* an ODEsys of Robertson's system: d(dB/dt)/dB = -k2*C - 2*k3*B has two terms
C4_Witness ==
    /\ pc = "odesys" /\ reactions = Robertson /\ names = RobertsonNames
    /\ Len(odesys.j[2][2]) = 2
    /\ odesys.j[3][1] = << >>

(***************************************************************************)
(* Properties of the methods of ODEsys.                                    *)
(***************************************************************************)
\* a call of a callback passed one value per parameter, and every symbol of
\* the expressions is a species or a parameter of the instance
WellFormedCall ==
    /\ Len(call.params) = Len(odesys.p)
    /\ RateSymbols(reactions) \subseteq Range(odesys.p)

\* the i-th entry of the state bound to self.y[i], the k-th extra argument to
\* self.p[k]
CallEnv ==
    [s \in Range(odesys.y) \cup Range(odesys.p) |->
        IF s \in Range(odesys.y)
        THEN call.y[CHOOSE i \in DOMAIN odesys.y : odesys.y[i] = s]
        ELSE call.params[CHOOSE k \in DOMAIN odesys.p : odesys.p[k] = s]]

\* C5: f_eval(y, t, *params) returns the ny values of f and j_eval(y, t,
\* *params) the ny x ny values of j, each evaluated with the i-th entry of the
\* state bound to the symbol self.y[i] and the k-th extra argument bound to
\* self.p[k]; the time t has no influence on either result. (A call with a
\* wrong number of parameters is a TypeError, a symbol that is no parameter a
\* NameError.)
C5_Callbacks ==
    (pc = "called" /\ call.fn \in { "f_eval", "j_eval" }) =>
       /\ ret.err = "" <=> WellFormedCall
       /\ Len(call.params) # Len(odesys.p) => ret = TypeError
       /\ (WellFormedCall /\ call.fn = "f_eval") =>
             /\ Len(ret.val) = ny(odesys)
             /\ \A i \in 1..ny(odesys) :
                   ret.val[i] = MassActionSum(reactions, odesys.y[i], CallEnv, 1)
       /\ (WellFormedCall /\ call.fn = "j_eval") =>
             /\ Len(ret.val) = ny(odesys)
             /\ \A i \in 1..ny(odesys) :
                   /\ Len(ret.val[i]) = ny(odesys)
                   /\ \A k \in 1..ny(odesys) :
                         ret.val[i][k] =
                            PartialSum(reactions, odesys.y[i], odesys.y[k], CallEnv, 1)

\* f_eval was called at a time other than 0 with the parameters of Robertson's
\* system in the order k3, k1, k2 and pairwise different values where it matters
C5_Witness ==
    /\ pc = "called" /\ call.fn = "f_eval" /\ ret.err = ""
    /\ odesys.p = << "k3", "k1", "k2" >>
    /\ call.t # 0
    /\ call.params[1] # call.params[2]
    /\ call.y = << 1, MaxConc, 1 >>
    /\ ret.val[3] # 0

\* the keyword arguments of the last call that are not rtol or atol
CallKwargs == Without(call.kw, { "rtol", "atol" }, 1)

KeywordOr(kw, key, default) == IF key \in Keys(kw) THEN Get(kw, key) ELSE default

\* C6: integrate_odeint(tout, y0, params, rtol, atol, **kwargs) hands the system
\* to the solver in exactly one call, with f_eval as right-hand side, y0, tout,
\* args = tuple(params), Dfun = j_eval, full_output = True and rtol and atol the
\* caller's values or 1e-8 each, and returns the solver's (yout, info) pair
\* unchanged; no call of the solver has another Dfun or full_output: kwargs
\* that name a keyword already passed (or one the solver does not know) make
\* the call a TypeError before the solver runs.
C6_IntegrateOdeint ==
    (pc = "called" /\ call.fn = "integrate_odeint") =>
       /\ Len(solver) <= 1
       /\ \A i \in DOMAIN solver :
             LET c == solver[i].call
             IN  /\ c.func = "f_eval" /\ c.y0 = call.y /\ c.t = call.t
                 /\ c.args = call.params
                 /\ c.Dfun = "j_eval" /\ c.full_output = TRUE
                 /\ c.rtol = KeywordOr(call.kw, "rtol", "1e-8")
                 /\ c.atol = KeywordOr(call.kw, "atol", "1e-8")
                 /\ c.kwargs = CallKwargs
       /\ Keys(CallKwargs) \subseteq OtherOdeintKeywords => Len(solver) = 1
       /\ ret.err = "" => Len(solver) = 1 /\ ret.val = solver[1].result
       /\ Keys(CallKwargs) \cap { "Dfun", "full_output", "args" } # {} =>
             solver = << >> /\ ret = TypeError

\* the notebook's call: tolerances 1e-9 given, the solver's pair returned
C6_Witness ==
    /\ pc = "called" /\ call.fn = "integrate_odeint"
    /\ call.kw = << <<"atol", "1e-9">>, <<"rtol", "1e-9">> >>
    /\ Len(solver) = 1 /\ solver[1].call.rtol = "1e-9"
    /\ ret = Returned(<< "yout_2", "info_2" >>)

(***************************************************************************)
(* Properties of euler_fw and of the nitrosyl bromide rhs.                 *)
(***************************************************************************)
\* C2: euler_fw is the forward Euler method: yout[0] = y0 and for every i from
\* 1 to len(tout)-1, yout[i] = yout[i-1] + d * (tout[i] - tout[i-1]), d being
\* the vector rhs returned in the call it got the state yout[i-1] in; the step
\* is the difference of consecutive output times, uniform or not. (Row i of
\* the code is yout[i + 1] here.)
C2_ForwardEuler ==
    pc = "euler_done" =>
       /\ Len(yout) = Len(tout)
       /\ yout[1] = y0
       /\ Len(rhsLog) = Len(tout) - 1
       /\ \A i \in 1..(Len(tout) - 1) :
             LET d == rhsLog[i].ret
             IN  /\ rhsLog[i].y = yout[i]
                 /\ d = CallRhs(rhsFn, yout[i], rhsLog[i].t, args)
                 /\ DOMAIN yout[i + 1] = DOMAIN y0
                 /\ \A c \in DOMAIN y0 :
                       yout[i + 1][c] = yout[i][c] + d[c] * (tout[i + 1] - tout[i])

\* two steps of different sizes were taken and the state moved in both
C2_Witness ==
    /\ pc = "euler_done" /\ Len(tout) = 3
    /\ tout[2] - tout[1] # tout[3] - tout[2]
    /\ tout[2] # tout[1] /\ tout[3] # tout[2]
    /\ yout[2] # yout[1] /\ yout[3] # yout[2]

\* C3: the call of rhs that produces yout[i] is made with the state yout[i-1]
\* and with the time tout[i-1] of that state, never with the time of the step
\* being computed.
C3_TimeOfState ==
    pc = "euler_done" =>
       \A i \in DOMAIN rhsLog :
          rhsLog[i].y = yout[i] /\ rhsLog[i].t = tout[i]

\* the matrices S and R of the documented nitrosyl bromide system
S == << << -2, 2 >>, << -1, 1 >>, << 2, -2 >> >>
R == << << 2, 1, 0 >>, << 0, 0, 2 >> >>

\* r_j = k_j * prod_l c_l ** R[j][l]
RateOf(j, y, k) == k[j] * Pow(y[1], R[j][1]) * Pow(y[2], R[j][2]) * Pow(y[3], R[j][3])

\* (S r)_i = sum_j S[i][j] * r_j
SrRow(i, y, k) == S[i][1] * RateOf(1, y, k) + S[i][2] * RateOf(2, y, k)

NitrosylApplied == pc = "applied" /\ rhsFn = "rhs"

\* C9: rhs(y, t, kf, kb) returns, for every y, t, kf and kb, the vector S * r
\* of the documented system, r = [kf*y[0]**2*y[1], kb*y[2]**2], that is
\* [2*(kb*y2**2 - kf*y1*y0**2), kb*y2**2 - kf*y1*y0**2,
\*  2*(kf*y1*y0**2 - kb*y2**2)], whatever t is.
C9_NitrosylRhs ==
    NitrosylApplied =>
       LET y == y0
           kf == args[1]
           kb == args[2]
           got == yout[1]
       IN  /\ Len(got) = 3
           /\ \A i \in 1..3 : got[i] = SrRow(i, y, args)
           /\ got[1] = 2 * (kb * y[3] * y[3] - kf * y[2] * y[1] * y[1])
           /\ got[2] = kb * y[3] * y[3] - kf * y[2] * y[1] * y[1]
           /\ got[3] = 2 * (kf * y[2] * y[1] * y[1] - kb * y[3] * y[3])

\* rhs was applied at a time other than 0 where both rates are non-zero and differ
C9_Witness ==
    /\ NitrosylApplied
    /\ tout[1] # 0
    /\ y0 = << 1, MaxConc, 1 >>
    /\ args[1] # args[2]
    /\ yout[1][2] # 0

(***************************************************************************)
(* Properties of the continued fraction.                                   *)
(***************************************************************************)
\* numerator and denominator of the fraction of the exercise
OrigNum ==
    a["a0"]*a["a1"]*a["a2"]*a["a3"]*a["a4"] + a["a0"]*a["a1"]*a["a2"]
      + a["a0"]*a["a3"]*a["a4"] + a["a0"] + a["a1"]*a["a2"]*a["a3"]
      + a["a1"]*a["a3"]*a["a4"] + a["a1"] + a["a3"]

OrigDen ==
    a["a0"]*a["a1"]*a["a2"]*a["a4"] + a["a0"]*a["a4"] + a["a1"]*a["a2"]
      + a["a1"]*a["a4"] + 1

\* C7: for every assignment of values to a0..a4 for which no intermediate
\* denominator is zero, list_to_frac(continued_frac()) has the value of
\* orig_frac = OrigNum / OrigDen (whose denominator is then not zero).
C7_ContinuedFrac ==
    (pc = "frac_done" /\ frac.ok) =>
       /\ frac.den # 0
       /\ OrigDen # 0
       /\ frac.num * OrigDen = OrigNum * frac.den

\* a fraction with pairwise different values of a0..a4 that is no integer
C7_Witness ==
    /\ pc = "frac_done" /\ frac.ok
    /\ \A s, u \in FracSymbols : s # u => a[s] # a[u]
    /\ OrigDen > 1
    /\ OrigNum % OrigDen # 0

(***************************************************************************)
(* Properties of vdp.                                                      *)
(***************************************************************************)
VdpApplied == pc = "applied" /\ rhsFn = "vdp"

\* C12: vdp(y, t, mu) returns the right-hand side of the van der Pol system
\* as two first-order equations: for every y = [y0, y1], t and mu the result
\* is [y1, mu*(1 - y0**2)*y1 - y0], a list of exactly two components,
\* whatever t is. (y0, y1 of the code are y[1], y[2] here.)
C12_VanDerPol ==
    VdpApplied =>
       LET y == y0
           mu == args[1]
           got == yout[1]
       IN  /\ Len(got) = 2
           /\ got[1] = y[2]
           /\ got[2] = mu * y[2] - mu * y[1] * y[1] * y[2] - y[1]
           /\ rhsLog = << [y |-> y, t |-> tout[1], ret |-> got] >>

\* vdp was applied at a time other than 0 and 1 where the damping term counts
C12_Witness ==
    /\ VdpApplied
    /\ tout[1] > 1
    /\ args[1] > 1
    /\ y0[1] > 1 /\ y0[2] # 0
    /\ yout[1][2] # -y0[1]

(***************************************************************************)
(* Properties of the construction of an ODEsys.                            *)
(***************************************************************************)
ByMkRsys == call.fn = "mk_rsys"

\* C11: mk_rsys(ODEsys, reactions, names, params) creates an ODEsys whose y is
\* the tuple of the species symbols in the order of names, whose f is the
\* tuple of the mass-action expressions mk_exprs_symbs(reactions, names)
\* returns and whose p is the tuple of the sympified params in their order;
\* len(f) = len(y) = len(names), so the constructor's assertion never fails
\* (mk_rsys ends with an instance, or with the KeyError of mk_exprs_symbs).
C11_MkRsys ==
    ByMkRsys =>
       /\ pc \in { "odesys", "KeyError" }
       /\ pc = "KeyError" =>
             odesys = NoODEsys /\ ~(Mentioned(reactions) \subseteq Range(names))
       /\ pc = "odesys" =>
             /\ odesys.made
             /\ odesys.y = names
             /\ odesys.p = [k \in DOMAIN params |-> Sympify(params[k])]
             /\ odesys.f = mk_exprs_symbs(reactions, names).f
             /\ Len(odesys.f) = Len(names) /\ Len(odesys.y) = Len(names)
             /\ \A i \in DOMAIN names : \A env \in ChemEnvs :
                   Eval(odesys.f[i], env) = MassActionSum(reactions, names[i], env, 1)

\* Robertson's system built by mk_rsys with the names in the order C, A, B
C11_Witness ==
    /\ ByMkRsys /\ pc = "odesys"
    /\ reactions = Robertson /\ names = << "C", "A", "B" >>
    /\ odesys.p = RobertsonParams
    /\ Len(odesys.f[3]) = 3 /\ Len(odesys.f[1]) = 1

ByConstructor == call.fn = "ODEsys"

\* C13: ODEsys(f, y, ...) with len(f) # len(y) fails with an AssertionError
\* before any attribute is set, before the Jacobian is computed and before
\* setup() runs; with len(f) = len(y) it succeeds, so every ODEsys instance
\* has len(f) = len(y).
C13_Assertion ==
    /\ ByConstructor =>
          /\ Len(call.f) # Len(call.y) => pc = "AssertionError" /\ odesys = NoODEsys
          /\ Len(call.f) = Len(call.y) =>
                pc = "odesys" /\ odesys.f = call.f /\ odesys.y = call.y
    /\ odesys.made => Len(odesys.f) = Len(odesys.y)
    /\ pc = "AssertionError" => odesys = NoODEsys

\* the constructor was handed three expressions and two symbols
C13_Witness ==
    /\ ByConstructor /\ pc = "AssertionError"
    /\ Len(call.f) = 3 /\ Len(call.y) = 2
    /\ call.f[2] # << >>

====
